---- MODULE Spec2Model ----
(***************************************************************************)
(* Model of the conversation -> Jira stories web application (src/main.py). *)
(*                                                                         *)
(* A string of the program is a sequence of one-character strings, so that *)
(* strip(), lower(), endswith(), slicing and html.escape() are computed    *)
(* character by character.  A JSON value is a tagged record:               *)
(*   [t |-> "dict", v |-> function from keys to values]                    *)
(*   [t |-> "list", v |-> sequence of values]                              *)
(*   [t |-> "str",  v |-> string]   [t |-> "int", v |-> integer]           *)
(*   [t |-> "null"]                                                        *)
(***************************************************************************)
EXTENDS Integers, Sequences, FiniteSets, TLC

(***************************************************************************)
(* Bounds of the model.                                                    *)
(***************************************************************************)
MaxTextLen == 2
MaxReqs == 2

(***************************************************************************)
(* Program constants.                                                      *)
(***************************************************************************)
PreviewLen == 200
MaxOutputTokens == 2000

(***************************************************************************)
(* Generic helpers on sequences.                                           *)
(***************************************************************************)
SeqsUpTo(S, n) == UNION {[1..k -> S] : k \in 0..n}

\* the concatenation of the sequences of ss (by halves, to keep the nesting flat)
RECURSIVE Flatten(_)
Flatten(ss) ==
    IF ss = <<>> THEN <<>>
    ELSE IF Len(ss) = 1 THEN ss[1]
    ELSE Flatten(SubSeq(ss, 1, Len(ss) \div 2)) \o Flatten(SubSeq(ss, Len(ss) \div 2 + 1, Len(ss)))

Min(a, b) == IF a <= b THEN a ELSE b

Repeat(c, n) == [i \in 1..n |-> c]

(***************************************************************************)
(* Python string operations.                                               *)
(***************************************************************************)
Whitespace == {" ", "\t", "\n", "\r", "\f"}

\* s.lstrip()
RECURSIVE LStrip(_)
LStrip(s) == IF s # <<>> /\ Head(s) \in Whitespace THEN LStrip(Tail(s)) ELSE s

\* s.rstrip()
RECURSIVE RStrip(_)
RStrip(s) ==
    IF s # <<>> /\ s[Len(s)] \in Whitespace
    THEN RStrip(SubSeq(s, 1, Len(s) - 1))
    ELSE s

\* s.strip(): leading and trailing whitespace removed
Strip(s) == RStrip(LStrip(s))

UpperCase ==
    [A |-> "a", B |-> "b", C |-> "c", D |-> "d", E |-> "e", F |-> "f", G |-> "g",
     H |-> "h", I |-> "i", J |-> "j", K |-> "k", L |-> "l", M |-> "m", N |-> "n",
     O |-> "o", P |-> "p", Q |-> "q", R |-> "r", S |-> "s", T |-> "t", U |-> "u",
     V |-> "v", W |-> "w", X |-> "x", Y |-> "y", Z |-> "z"]

\* s.lower()
Lower(s) == [i \in 1..Len(s) |-> IF s[i] \in DOMAIN UpperCase THEN UpperCase[s[i]] ELSE s[i]]

\* s.endswith(suffix)
EndsWith(s, suffix) ==
    /\ Len(suffix) <= Len(s)
    /\ SubSeq(s, Len(s) - Len(suffix) + 1, Len(s)) = suffix

\* s[:n]
Prefix(s, n) == SubSeq(s, 1, Min(n, Len(s)))

\* s.replace(a, b) for single characters a and b
ReplaceChar(s, a, b) == [i \in 1..Len(s) |-> IF s[i] = a THEN b ELSE s[i]]

\* sep.join(parts)
RECURSIVE Join(_, _)
Join(sep, parts) ==
    IF parts = <<>> THEN <<>>
    ELSE IF Len(parts) = 1 THEN parts[1]
    ELSE parts[1] \o sep \o Join(sep, Tail(parts))

\* html.escape(s), quote=True
HtmlEscapeChar(c) ==
    CASE c = "&" -> <<"&", "a", "m", "p", ";">>
      [] c = "<" -> <<"&", "l", "t", ";">>
      [] c = ">" -> <<"&", "g", "t", ";">>
      [] c = "\"" -> <<"&", "q", "u", "o", "t", ";">>
      [] c = "'" -> <<"&", "#", "x", "2", "7", ";">>
      [] OTHER -> <<c>>

HtmlEscape(s) == Flatten([i \in 1..Len(s) |-> HtmlEscapeChar(s[i])])

\* str(n) for an integer n
Digits == <<"0", "1", "2", "3", "4", "5", "6", "7", "8", "9">>

RECURSIVE NatToStr(_)
NatToStr(n) == IF n < 10 THEN <<Digits[n + 1]>> ELSE NatToStr(n \div 10) \o <<Digits[(n % 10) + 1]>>

IntToStr(n) == IF n < 0 THEN <<"-">> \o NatToStr(0 - n) ELSE NatToStr(n)

(***************************************************************************)
(* String literals of the program, as character sequences.                 *)
(***************************************************************************)
K_project_key == <<"p", "r", "o", "j", "e", "c", "t", "_", "k", "e", "y">>
K_requirements == <<"r", "e", "q", "u", "i", "r", "e", "m", "e", "n", "t", "s">>
K_id == <<"i", "d">>
K_issue_type == <<"i", "s", "s", "u", "e", "_", "t", "y", "p", "e">>
K_summary == <<"s", "u", "m", "m", "a", "r", "y">>
K_description == <<"d", "e", "s", "c", "r", "i", "p", "t", "i", "o", "n">>
K_priority == <<"p", "r", "i", "o", "r", "i", "t", "y">>
K_story_points == <<"s", "t", "o", "r", "y", "_", "p", "o", "i", "n", "t", "s">>
K_acceptance_criteria == <<"a", "c", "c", "e", "p", "t", "a", "n", "c", "e", "_", "c", "r", "i", "t", "e", "r", "i", "a">>
K_dependencies == <<"d", "e", "p", "e", "n", "d", "e", "n", "c", "i", "e", "s">>
S_PROJECT == <<"P", "R", "O", "J", "E", "C", "T">>
S_REQ_unknown == <<"R", "E", "Q", "-", "?">>
S_Story == <<"S", "t", "o", "r", "y">>
S_Medium == <<"M", "e", "d", "i", "u", "m">>
S_None == <<"N", "o", "n", "e">>
S_requirements_docx == <<"_", "r", "e", "q", "u", "i", "r", "e", "m", "e", "n", "t", "s", ".", "d", "o", "c", "x">>
S_title_suffix == <<" ", "-", " ", "R", "e", "q", "u", "i", "r", "e", "m", "e", "n", "t", "s", " ", "S", "p", "e", "c", "i", "f", "i", "c", "a", "t", "i", "o", "n">>
S_dot_txt == <<".", "t", "x", "t">>
S_dot_docx == <<".", "d", "o", "c", "x">>
S_null == <<"n", "u", "l", "l">>

(***************************************************************************)
(* JSON values and json.loads().                                           *)
(***************************************************************************)
JStr(s) == [t |-> "str", v |-> s]
JInt(n) == [t |-> "int", v |-> n]
JNull == [t |-> "null"]
JList(xs) == [t |-> "list", v |-> xs]
JDict(f) == [t |-> "dict", v |-> f]

EmptyDict == [k \in {} |-> JNull]

\* d[key] = val on a Python dict
DictSet(f, key, val) == [k \in (DOMAIN f) \cup {key} |-> IF k = key THEN val ELSE f[k]]

\* d.get(key, default) on a Python dict
\* DictGet that ignores the default, as .get(key) does
DictGetNone(f, key, default) == IF key \in DOMAIN f THEN f[key] ELSE JNull
DictGet(f, key, default) == IF key \in DOMAIN f THEN f[key] ELSE default

JsonWs == {" ", "\t", "\n", "\r"}
DigitChars == {Digits[i] : i \in 1..10}
DigitValue(c) == (CHOOSE i \in 1..10 : Digits[i] = c) - 1

POk(val, nxt) == [ok |-> TRUE, v |-> val, next |-> nxt]
\* a JSONDecodeError: msg and the 0-based position it reports
PErr(what, idx) == [ok |-> FALSE, what |-> what, pos |-> idx - 1]

RECURSIVE SkipWs(_, _)
SkipWs(s, i) == IF i <= Len(s) /\ s[i] \in JsonWs THEN SkipWs(s, i + 1) ELSE i

At(s, i, c) == i <= Len(s) /\ s[i] = c

\* index of the quote closing the string whose first character is at i; 0 if none
RECURSIVE ClosingQuote(_, _)
ClosingQuote(s, i) ==
    IF i > Len(s) THEN 0
    ELSE IF s[i] = "\"" THEN i
    ELSE ClosingQuote(s, i + 1)

\* the string literal whose opening quote is at i (no escape sequences occur
\* in the texts of this model)
ParseString(s, i) ==
    LET q == ClosingQuote(s, i + 1) IN
    IF q = 0 THEN PErr("Unterminated string starting at", i)
    ELSE POk(SubSeq(s, i + 1, q - 1), q + 1)

RECURSIVE DigitsEnd(_, _)
DigitsEnd(s, i) == IF i <= Len(s) /\ s[i] \in DigitChars THEN DigitsEnd(s, i + 1) ELSE i

RECURSIVE DigitsValue(_, _, _)
DigitsValue(s, i, j) ==
    IF i >= j THEN 0 ELSE DigitsValue(s, i, j - 1) * 10 + DigitValue(s[j - 1])

\* an integer literal -?(0|[1-9][0-9]*) at i
ParseNumber(s, i) ==
    LET neg == At(s, i, "-")
        d == IF neg THEN i + 1 ELSE i
        e == IF At(s, d, "0") THEN d + 1 ELSE DigitsEnd(s, d)
    IN  IF e = d THEN PErr("Expecting value", i)
        ELSE POk(JInt(IF neg THEN 0 - DigitsValue(s, d, e) ELSE DigitsValue(s, d, e)), e)

\* the key of an object member at i and the ':' after it: the key and the
\* index of the member's value
ParseKey(s, i) ==
    IF ~At(s, i, "\"")
    THEN PErr("Expecting property name enclosed in double quotes", i)
    ELSE LET k == ParseString(s, i) IN
         IF ~k.ok THEN k
         ELSE LET c == SkipWs(s, k.next) IN
              IF ~At(s, c, ":") THEN PErr("Expecting ':' delimiter", c)
              ELSE POk(k.v, SkipWs(s, c + 1))

RECURSIVE ParseValue(_, _)
RECURSIVE ParseMembers(_, _, _)
RECURSIVE ParseElements(_, _, _)

\* the members of an object from the key at i, acc the pairs read so far
ParseMembers(s, i, acc) ==
    LET k == ParseKey(s, i) IN
    IF ~k.ok THEN k
    ELSE LET val == ParseValue(s, k.next) IN
         IF ~val.ok THEN val
         ELSE LET e == SkipWs(s, val.next) IN
              IF At(s, e, "}") THEN POk(JDict(DictSet(acc, k.v, val.v)), e + 1)
              ELSE IF At(s, e, ",")
              THEN ParseMembers(s, SkipWs(s, e + 1), DictSet(acc, k.v, val.v))
              ELSE PErr("Expecting ',' delimiter", e)

\* the elements of an array from i (whitespace skipped), acc the values read so far
ParseElements(s, i, acc) ==
    LET val == ParseValue(s, i) IN
    IF ~val.ok THEN val
    ELSE LET e == SkipWs(s, val.next) IN
         IF At(s, e, "]") THEN POk(JList(Append(acc, val.v)), e + 1)
         ELSE IF At(s, e, ",") THEN ParseElements(s, SkipWs(s, e + 1), Append(acc, val.v))
         ELSE PErr("Expecting ',' delimiter", e)

\* the JSON value starting at i (whitespace skipped)
ParseValue(s, i) ==
    IF i > Len(s) THEN PErr("Expecting value", i)
    ELSE IF s[i] = "\"" THEN
        LET r == ParseString(s, i) IN IF r.ok THEN POk(JStr(r.v), r.next) ELSE r
    ELSE IF s[i] = "{" THEN
        LET j == SkipWs(s, i + 1) IN
        IF At(s, j, "}") THEN POk(JDict(EmptyDict), j + 1) ELSE ParseMembers(s, j, EmptyDict)
    ELSE IF s[i] = "[" THEN
        LET j == SkipWs(s, i + 1) IN
        IF At(s, j, "]") THEN POk(JList(<<>>), j + 1) ELSE ParseElements(s, j, <<>>)
    ELSE IF i + 3 <= Len(s) /\ SubSeq(s, i, i + 3) = S_null THEN POk(JNull, i + 4)
    ELSE ParseNumber(s, i)

\* json.loads(s): the value, or the JSONDecodeError
JsonLoads(s) ==
    LET r == ParseValue(s, SkipWs(s, 1)) IN
    IF ~r.ok THEN r
    ELSE LET e == SkipWs(s, r.next) IN
         IF e <= Len(s) THEN PErr("Extra data", e) ELSE r

(***************************************************************************)
(* The external service writes its JSON the way json.dumps() does.         *)
(***************************************************************************)
KeyOrder ==
    <<K_project_key, K_requirements, K_id, K_issue_type, K_summary, K_description,
      K_priority, K_story_points, K_acceptance_criteria, K_dependencies>>

RECURSIVE Dumps(_)
RECURSIVE DumpsEach(_)
DumpsEach(xs) == [i \in 1..Len(xs) |-> Dumps(xs[i])]

Dumps(x) ==
    CASE x.t = "str" -> <<"\"">> \o x.v \o <<"\"">>
      [] x.t = "int" -> IntToStr(x.v)
      [] x.t = "null" -> S_null
      [] x.t = "list" -> <<"[">> \o Join(<<",", " ">>, DumpsEach(x.v)) \o <<"]">>
      [] x.t = "dict" ->
            LET present == SelectSeq(KeyOrder, LAMBDA k : k \in DOMAIN x.v)
                pairs == [i \in 1..Len(present) |->
                            <<"\"">> \o present[i] \o <<"\"", ":", " ">> \o Dumps(x.v[present[i]])]
            IN  <<"{">> \o Join(<<",", " ">>, pairs) \o <<"}">>

(***************************************************************************)
(* Exceptions.  A message is its fixed text fmt with the values formatted  *)
(* into it: what and pos of a JSONDecodeError ("{what}: ... (char {pos})") *)
(* or the text of a wrapped exception, and the output preview.             *)
(***************************************************************************)
Msg(text) == [fmt |-> text, what |-> "", pos |-> -1, preview |-> <<>>]

Exc(cls, msg) == [cls |-> cls, msg |-> msg]

\* the classes an "except ValueError" clause catches
ValueErrorClasses == {"ValueError", "JSONDecodeError"}

Raise(exc) == [ok |-> FALSE, exc |-> exc]
Return(val) == [ok |-> TRUE, v |-> val]

M_MissingKey ==
    Msg("Missing OPENAI_API_KEY environment variable. Please set it before running this app.")
M_EmptyResponse == Msg("The model returned an empty response. Please try again.")
M_NoFile == Msg("Please upload a .txt or .docx file when 'Attachment' is selected.")
M_Unsupported == Msg("Only .txt and .docx files are supported.")
M_NoText == Msg("Please enter some text when 'Text' is selected.")

M_NotJson(err, preview) ==
    [fmt |-> "Model output was not valid JSON. Error: {e}. Output preview: {preview}",
     what |-> err.what, pos |-> err.pos, preview |-> preview]

M_Generic(inner) ==
    [fmt |-> "Something went wrong while generating the Word file. Please try again or contact support. Details: {e}",
     what |-> inner.fmt, pos |-> inner.pos, preview |-> inner.preview]

(***************************************************************************)
(* create_word_bytes_from_requirements: the document is the sequence of    *)
(* blocks the calls on the document library add to it.                     *)
(***************************************************************************)
Heading(level, text) == [kind |-> "heading", level |-> level, style |-> "Heading", runs |-> <<[text |-> text, bold |-> FALSE]>>]
Paragraph(style, runs) == [kind |-> "paragraph", level |-> -1, style |-> style, runs |-> runs]
PageBreak == [kind |-> "page_break", level |-> -1, style |-> "Normal", runs |-> <<>>]
Run(text, bold) == [text |-> text, bold |-> bold]

\* str(x) / f"{x}" of a scalar
PyStr(x) ==
    CASE x.t = "str" -> x.v
      [] x.t = "int" -> IntToStr(x.v)
      [] x.t = "null" -> S_None

\* bool(x)
Truthy(x) ==
    CASE x.t = "str" -> x.v # <<>>
      [] x.t = "int" -> x.v # 0
      [] x.t = "null" -> FALSE
      [] x.t = "list" -> x.v # <<>>
      [] x.t = "dict" -> DOMAIN x.v # {}

E_NoGet == Exc("AttributeError", Msg("object has no attribute 'get'"))
E_NotIterable == Exc("TypeError", Msg("object is not iterable"))
E_JoinItem == Exc("TypeError", Msg("sequence item: expected str instance"))
E_NoItemAssignment == Exc("TypeError", Msg("object does not support item assignment"))

\* the items "for x in v" visits, or the TypeError
Iterate(x) ==
    CASE x.t = "list" -> Return(x.v)
      [] x.t = "str" -> Return([i \in 1..Len(x.v) |-> JStr(<<x.v[i]>>)])
      [] x.t = "dict" ->
            LET keys == SelectSeq(KeyOrder, LAMBDA k : k \in DOMAIN x.v)
            IN  Return([i \in 1..Len(keys) |-> JStr(keys[i])])
      [] OTHER -> Raise(E_NotIterable)

\* ", ".join(items)
JoinValues(items) ==
    IF \E i \in 1..Len(items) : items[i].t # "str" THEN Raise(E_JoinItem)
    ELSE Return(Join(<<",", " ">>, [i \in 1..Len(items) |-> items[i].v]))

\* StoryPointsRuns without the test for None
StoryPointsRunsAlways(story_points) ==
    <<Run(<<"   |   Story Points: ">>, TRUE), Run(PyStr(story_points), FALSE)>>
\* lines 164-166
StoryPointsRuns(story_points) ==
    IF story_points.t # "null"
    THEN <<Run(<<"   |   Story Points: ">>, TRUE), Run(PyStr(story_points), FALSE)>>
    ELSE <<>>

\* DependenciesBlocks with the entries in the reverse order
DependenciesBlocksUnsorted(dependencies) ==
    IF Truthy(dependencies)
    THEN LET items == Iterate(dependencies) IN
         IF ~items.ok THEN items
         ELSE LET joined == JoinValues([i \in 1..Len(items.v) |-> items.v[Len(items.v) + 1 - i]]) IN
              IF ~joined.ok THEN joined
              ELSE Return(<<Paragraph("Normal", <<Run(<<"Dependencies: ">>, TRUE), Run(joined.v, FALSE)>>)>>)
    ELSE Return(<<>>)
\* lines 168-171
DependenciesBlocks(dependencies) ==
    IF Truthy(dependencies)
    THEN LET items == Iterate(dependencies) IN
         IF ~items.ok THEN items
         ELSE LET joined == JoinValues(items.v) IN
              IF ~joined.ok THEN joined
              ELSE Return(<<Paragraph("Normal", <<Run(<<"Dependencies: ">>, TRUE), Run(joined.v, FALSE)>>)>>)
    ELSE Return(<<>>)

\* lines 178-180
CriteriaBlocks(acceptance_criteria) ==
    LET items == Iterate(acceptance_criteria) IN
    IF ~items.ok THEN items
    ELSE Return(<<Heading(2, <<"Acceptance Criteria">>)>>
                \o [i \in 1..Len(items.v) |-> Paragraph("List Bullet", <<Run(PyStr(items.v[i]), FALSE)>>)])

\* RequirementBlocks without the page break
RequirementBlocksNoPageBreak(req) ==
    IF req.t # "dict" THEN Raise(E_NoGet)
    ELSE LET req_id == DictGet(req.v, K_id, JStr(S_REQ_unknown))
             summary == DictGet(req.v, K_summary, JStr(<<>>))
         IN  Return(<<Heading(1, PyStr(req_id) \o <<":", " ">> \o PyStr(summary)),
                      Paragraph("Normal", <<>>)>>)
\* lines 144-182: the body of the loop for one requirement
RequirementBlocks(req) ==
    IF req.t # "dict" THEN Raise(E_NoGet)
    ELSE
    LET req_id == DictGet(req.v, K_id, JStr(S_REQ_unknown))
        issue_type == DictGet(req.v, K_issue_type, JStr(S_Story))
        summary == DictGet(req.v, K_summary, JStr(<<>>))
        description == DictGet(req.v, K_description, JStr(<<>>))
        priority == DictGet(req.v, K_priority, JStr(S_Medium))
        story_points == DictGet(req.v, K_story_points, JNull)
        acceptance_criteria == DictGet(req.v, K_acceptance_criteria, JList(<<>>))
        dependencies == DictGet(req.v, K_dependencies, JList(<<>>))
        meta == Paragraph("Normal",
                    <<Run(<<"Issue Type: ">>, TRUE), Run(PyStr(issue_type), FALSE),
                      Run(<<"   |   Priority: ">>, TRUE), Run(PyStr(priority), FALSE)>>
                    \o StoryPointsRuns(story_points))
        deps == DependenciesBlocks(dependencies)
        crit == CriteriaBlocks(acceptance_criteria)
    IN  IF ~deps.ok THEN deps
        ELSE IF ~crit.ok THEN crit
        ELSE Return(<<Heading(1, PyStr(req_id) \o <<":", " ">> \o PyStr(summary)), meta>>
                    \o deps.v
                    \o <<Heading(2, <<"Description">>), Paragraph("Normal", <<Run(PyStr(description), FALSE)>>)>>
                    \o crit.v
                    \o <<PageBreak>>)

\* lines 143-182: the loop, over the requirements from index i
RECURSIVE RequirementsBlocks(_, _)
RequirementsBlocks(reqs, i) ==
    IF i > Len(reqs) THEN Return(<<>>)
    ELSE LET one == RequirementBlocks(reqs[i]) IN
         IF ~one.ok THEN one
         ELSE LET rest == RequirementsBlocks(reqs, i + 1) IN
              IF ~rest.ok THEN rest ELSE Return(one.v \o rest.v)

\* lines 121-140: title and overview
FrontMatter(project_key) ==
    <<Heading(0, PyStr(project_key) \o S_title_suffix),
      Paragraph("Normal", <<>>),
      Heading(1, <<"Overview">>),
      Paragraph("Normal", <<Run(<<"This document contains auto-generated Jira-style requirements derived from raw text and conversational input.">>, FALSE)>>),
      PageBreak>>

create_word_bytes_from_requirements(data) ==
    IF data.t # "dict" THEN Raise(E_NoGet)
    ELSE LET project_key == DictGet(data.v, K_project_key, JStr(S_PROJECT))
             requirements == Iterate(DictGet(data.v, K_requirements, JList(<<>>)))
         IN  IF ~requirements.ok THEN requirements
             ELSE LET body == RequirementsBlocks(requirements.v, 1) IN
                  IF ~body.ok THEN body
                  ELSE Return(FrontMatter(project_key) \o body.v)

(***************************************************************************)
(* render_form_page: the values the template is filled with.               *)
(***************************************************************************)
NoMessage == [given |-> FALSE, msg |-> Msg("")]
Message(m) == [given |-> TRUE, msg |-> m]

\* html.escape of a message: its fixed text holds no character but "'" that
\* escaping changes; the formatted-in output preview is escaped by character
EscapeMsg(m) == [m EXCEPT !.preview = HtmlEscape(m.preview)]

render_form_page(conversation_text, project_key, input_mode, error_message) ==
    [error_shown |-> error_message.given /\ error_message.msg.fmt # "",
     error_html |-> IF error_message.given /\ error_message.msg.fmt # ""
                    THEN EscapeMsg(error_message.msg) ELSE Msg(""),
     text_checked |-> input_mode = "text",
     file_checked |-> input_mode = "file",
     text_display |-> IF input_mode = "text" THEN "flex" ELSE "none",
     file_display |-> IF input_mode = "file" THEN "flex" ELSE "none",
     textarea |-> HtmlEscape(conversation_text),
     project_key_value |-> HtmlEscape(project_key)]

HTMLResponse(page) == [kind |-> "form", status |-> 200, page |-> page]

StreamingResponse(doc_bytes, filename) ==
    [kind |-> "attachment", status |-> 200,
     media_type |-> "application/vnd.openxmlformats-officedocument.wordprocessingml.document",
     filename |-> filename, body |-> doc_bytes]

(***************************************************************************)
(* Uploaded files.  The content of a file is its bytes and what the        *)
(* document library finds when it opens them: no package (Document()       *)
(* raises BadZipFile), a package that is no Word document (Document()      *)
(* raises ValueError) or a Word document with its paragraphs.              *)
(***************************************************************************)
NoPackage == [kind |-> "none", paragraphs |-> <<>>]
OtherPackage == [kind |-> "other", paragraphs |-> <<>>]
WordPackage(paragraphs) == [kind |-> "word", paragraphs |-> paragraphs]

NoUpload == [present |-> FALSE, filename |-> <<>>, bytes |-> <<>>, package |-> NoPackage]
Upload(filename, bytes, package) ==
    [present |-> TRUE, filename |-> filename, bytes |-> bytes, package |-> package]

\* the characters of the code points that occur in the files of this model
CharOf == (10 :> "\n") @@ (32 :> " ") @@ (60 :> "<") @@ (97 :> "a") @@ (233 :> "U+00E9")

\* bytes.decode("utf-8", errors="ignore") for one- and two-byte sequences:
\* a byte that starts no valid sequence is dropped
RECURSIVE Utf8DecodeIgnore(_)
Utf8DecodeIgnore(b) ==
    IF b = <<>> THEN <<>>
    ELSE IF b[1] < 128 THEN <<CharOf[b[1]]>> \o Utf8DecodeIgnore(Tail(b))
    ELSE IF b[1] \in 194..223 /\ Len(b) >= 2 /\ b[2] \in 128..191
         THEN <<CharOf[(b[1] - 192) * 64 + (b[2] - 128)]>> \o Utf8DecodeIgnore(Tail(Tail(b)))
    ELSE Utf8DecodeIgnore(Tail(b))

E_BadZipFile == Exc("BadZipFile", Msg("File is not a zip file"))
E_NotWord == Exc("ValueError", Msg("file is not a Word file, content type is '{content_type}'"))

\* Document(io.BytesIO(file_bytes)) and the p.text of its paragraphs
DocumentParagraphs(upload) ==
    CASE upload.package.kind = "word" -> Return(upload.package.paragraphs)
      [] upload.package.kind = "other" -> Raise(E_NotWord)
      [] upload.package.kind = "none" -> Raise(E_BadZipFile)

(***************************************************************************)
(* generate_word, lines 562-585: where the raw text comes from.            *)
(***************************************************************************)
\* ResolveUpload with the extension compared as typed, not lowered
ResolveUploadCaseSensitive(upload_file) ==
    IF ~upload_file.present \/ upload_file.filename = <<>>
    THEN Raise(Exc("ValueError", M_NoFile))
    ELSE IF EndsWith(upload_file.filename, S_dot_txt)
         THEN Return(Utf8DecodeIgnore(upload_file.bytes))
         ELSE IF EndsWith(upload_file.filename, S_dot_docx)
         THEN LET doc == DocumentParagraphs(upload_file) IN
              IF ~doc.ok THEN doc ELSE Return(Join(<<"\n">>, doc.v))
         ELSE Raise(Exc("ValueError", M_Unsupported))
ResolveUpload(upload_file) ==
    IF ~upload_file.present \/ upload_file.filename = <<>>
    THEN Raise(Exc("ValueError", M_NoFile))
    ELSE LET filename == Lower(upload_file.filename) IN
         IF EndsWith(filename, S_dot_txt)
         THEN Return(Utf8DecodeIgnore(upload_file.bytes))
         ELSE IF EndsWith(filename, S_dot_docx)
         THEN LET doc == DocumentParagraphs(upload_file) IN
              IF ~doc.ok THEN doc ELSE Return(Join(<<"\n">>, doc.v))
         ELSE Raise(Exc("ValueError", M_Unsupported))

\* ResolveText without the strip()
ResolveTextUntrimmed(conversation_text) ==
    IF Strip(conversation_text) = <<>> THEN Raise(Exc("ValueError", M_NoText))
    ELSE Return(conversation_text)
ResolveText(conversation_text) ==
    LET raw_text == Strip(conversation_text) IN
    IF raw_text = <<>> THEN Raise(Exc("ValueError", M_NoText))
    ELSE Return(raw_text)

\* ResolveInput that strips and checks the text of a file as it does the text field
ResolveInputValidated(form) ==
    IF form.input_mode = "file"
    THEN IF ResolveUpload(form.upload_file).ok
         THEN ResolveText(ResolveUpload(form.upload_file).v)
         ELSE ResolveUpload(form.upload_file)
    ELSE ResolveText(form.conversation_text)
ResolveInput(form) ==
    IF form.input_mode = "file"
    THEN ResolveUpload(form.upload_file)
    ELSE ResolveText(form.conversation_text)

(***************************************************************************)
(* generate_requirements_from_text.                                        *)
(***************************************************************************)
\* CheckApiKey that accepts a key set to the empty string
CheckApiKeyUnsetOnly(key) ==
    IF ~key.set THEN Raise(Exc("ValueError", M_MissingKey)) ELSE Return(key.value)
\* lines 23-28
CheckApiKey(key) ==
    IF ~key.set \/ key.value = <<>> THEN Raise(Exc("ValueError", M_MissingKey))
    ELSE Return(key.value)

\* lines 72-90: the request sent to the service
ServiceRequest(key, raw_text) ==
    [api_key |-> key, model |-> "gpt-4o-mini", system |-> "system_prompt",
     user |-> raw_text, max_output_tokens |-> MaxOutputTokens, format |-> "json_object"]

\* ParseOutput with the whole output as the preview
ParseOutputWholePreview(json_text) ==
    IF json_text = <<>> \/ Strip(json_text) = <<>>
    THEN Raise(Exc("ValueError", M_EmptyResponse))
    ELSE LET r == JsonLoads(json_text) IN
         IF ~r.ok
         THEN Raise(Exc("ValueError", M_NotJson(r, ReplaceChar(json_text, "\n", " "))))
         ELSE Return(r.v)
\* lines 93-109, on the output_text of the response
ParseOutput(json_text) ==
    IF json_text = <<>> \/ Strip(json_text) = <<>>
    THEN Raise(Exc("ValueError", M_EmptyResponse))
    ELSE LET r == JsonLoads(json_text) IN
         IF ~r.ok
         THEN Raise(Exc("ValueError",
                        M_NotJson(r, ReplaceChar(Prefix(json_text, PreviewLen), "\n", " "))))
         ELSE Return(r.v)

(***************************************************************************)
(* generate_word, lines 590-628.                                           *)
(***************************************************************************)
\* OverrideProjectKey that keeps the extracted key
OverrideNever(data, project_key) == Return(data)
\* lines 591-592
OverrideProjectKey(data, project_key) ==
    IF project_key # <<>>
    THEN IF data.t = "dict" THEN Return(JDict(DictSet(data.v, K_project_key, JStr(project_key))))
         ELSE Raise(E_NoItemAssignment)
    ELSE Return(data)

\* line 598
AttachmentFilename(data) ==
    PyStr(DictGet(data.v, K_project_key, JStr(S_PROJECT))) \o S_requirements_docx

\* HandleException that renders the resolved text, not the submitted one
HandleExceptionTrimmed(form, exc) ==
    HTMLResponse(render_form_page(Strip(form.conversation_text), form.project_key,
                                  form.input_mode,
                                  Message(IF exc.cls \in ValueErrorClasses THEN exc.msg
                                          ELSE M_Generic(exc.msg))))
\* HandleException without the second except clause
HandleExceptionValueErrorOnly(form, exc) ==
    IF exc.cls \in ValueErrorClasses
    THEN HTMLResponse(render_form_page(form.conversation_text, form.project_key,
                                       form.input_mode, Message(exc.msg)))
    ELSE [kind |-> "error", status |-> 500, page |-> render_form_page(<<>>, <<>>, "text", NoMessage)]
\* lines 608-628: the two except clauses
HandleException(form, exc) ==
    IF exc.cls \in ValueErrorClasses
    THEN HTMLResponse(render_form_page(form.conversation_text, form.project_key,
                                       form.input_mode, Message(exc.msg)))
    ELSE HTMLResponse(render_form_page(form.conversation_text, form.project_key,
                                       form.input_mode, Message(M_Generic(exc.msg))))

(***************************************************************************)
(* The inputs of the model.                                                *)
(***************************************************************************)
TextChars == {" ", "<"}
Texts == SeqsUpTo(TextChars, MaxTextLen)
Keys == {<<>>, <<"K">>, <<"&", "k">>}
Modes == {"text", "file", "TEXT"}

TxtUpload == Upload(<<"n", ".", "t", "x", "t">>, <<97, 255, 32>>, NoPackage)

Uploads ==
    { NoUpload,
      Upload(<<>>, <<>>, NoPackage),
      TxtUpload,
      Upload(<<"N", ".", "T", "x", "t">>, <<32, 195, 169, 195, 60>>, NoPackage),
      Upload(<<".", "t", "x", "t">>, <<>>, NoPackage),
      Upload(<<"n", ".", "d", "o", "c", "x">>, <<80, 75, 3>>,
             WordPackage(<<<<"a">>, <<>>, <<"<", " ">>>>)),
      Upload(<<"n", ".", "D", "O", "C", "X">>, <<80, 75, 4>>, WordPackage(<<>>)),
      Upload(<<"n", ".", "d", "o", "c", "x">>, <<97>>, NoPackage),
      Upload(<<"n", ".", "d", "o", "c", "x">>, <<80, 75, 5>>, OtherPackage),
      Upload(<<"n", ".", "p", "d", "f">>, <<97>>, NoPackage),
      Upload(<<"t", "x", "t">>, <<97>>, NoPackage) }

\* what a POST /generate carries: any text and project key in either mode; the
\* file modes with every upload, the text modes with and without an upload
Submissions ==
    [conversation_text : Texts, project_key : Keys, input_mode : {"file"}, upload_file : Uploads]
    \cup
    [conversation_text : Texts, project_key : Keys, input_mode : Modes \ {"file"},
     upload_file : {NoUpload, TxtUpload}]

NoSubmission ==
    [conversation_text |-> <<>>, project_key |-> <<>>, input_mode |-> "text", upload_file |-> NoUpload]

\* OPENAI_API_KEY in the environment of the process
ApiKeys == {[set |-> FALSE, value |-> <<>>], [set |-> TRUE, value |-> <<>>],
            [set |-> TRUE, value |-> <<"s", "k">>]}

(***************************************************************************)
(* What the external service can answer.                                   *)
(***************************************************************************)
Rec2Dict(keys, vals) == JDict([k \in {keys[i] : i \in 1..Len(keys)} |->
                                 vals[CHOOSE i \in 1..Len(keys) : keys[i] = k]])

ReqFull ==
    Rec2Dict(<<K_id, K_issue_type, K_summary, K_description, K_priority, K_story_points,
               K_acceptance_criteria, K_dependencies>>,
             <<JStr(<<"R", "1">>), JStr(<<"B", "u", "g">>), JStr(<<"S">>), JStr(<<"D">>),
               JStr(<<"H", "i">>), JInt(3), JList(<<JStr(<<"G">>)>>),
               JList(<<JStr(<<"R", "2">>), JStr(<<"R", "3">>)>>)>>)
ReqEmpty == JDict(EmptyDict)
ReqThirteen ==
    Rec2Dict(<<K_id, K_summary, K_story_points, K_acceptance_criteria, K_dependencies>>,
             <<JStr(<<"R", "2">>), JStr(<<"T">>), JInt(13),
               JList(<<JStr(<<"A">>), JStr(<<"B">>)>>), JList(<<>>)>>)
ReqNullPoints ==
    Rec2Dict(<<K_id, K_story_points, K_dependencies>>,
             <<JStr(<<"R", "3">>), JNull, JList(<<JStr(<<"R", "1">>)>>)>>)
ReqBadDependency ==
    Rec2Dict(<<K_id, K_dependencies>>, <<JStr(<<"R", "4">>), JList(<<JInt(7)>>)>>)

ReqPool == {ReqFull, ReqEmpty, ReqThirteen, ReqNullPoints, ReqBadDependency}

RequirementLists == SeqsUpTo(ReqPool, MaxReqs)

WithKey(reqs, key) == JDict(DictSet(reqs.v, K_project_key, key))

\* every list of requirements without a project key; the lists of at most one
\* requirement also with a project key, an empty one and null
DataPool ==
    LET withReqs == {Rec2Dict(<<K_requirements>>, <<JList(rs)>>) : rs \in RequirementLists}
                    \cup {JDict(EmptyDict)}
        short == {Rec2Dict(<<K_requirements>>, <<JList(rs)>>) : rs \in SeqsUpTo(ReqPool, 1)}
                 \cup {JDict(EmptyDict)}
    IN  withReqs
        \cup {WithKey(d, JStr(<<"S">>)) : d \in short}
        \cup { WithKey(JDict(EmptyDict), JStr(<<>>)),
               WithKey(Rec2Dict(<<K_requirements>>, <<JList(<<ReqFull>>)>>), JStr(<<>>)),
               WithKey(Rec2Dict(<<K_requirements>>, <<JList(<<ReqFull>>)>>), JNull),
               Rec2Dict(<<K_requirements>>, <<JInt(5)>>),
               Rec2Dict(<<K_requirements>>, <<JList(<<JStr(<<"x">>)>>)>>),
               JList(<<>>), JStr(<<"x">>), JInt(-4), JNull }

GarbageTexts ==
    { <<"x">>, <<"{">>, <<"{", "}", "x">>, <<" ", "[", "1", ",", "]">>,
      <<"\n", "o", "\n">> \o Repeat("x", PreviewLen - 4),
      <<"\n", "o", "\n">> \o Repeat("x", PreviewLen - 3),
      <<"\n", "o", "\n">> \o Repeat("x", PreviewLen - 2),
      Repeat("y", PreviewLen) \o <<"\n", "\n", "z">> }

BlankTexts == { <<>>, <<" ">>, <<"\n", " ", "\t">> }

E_Connection == Exc("APIConnectionError", Msg("Connection error."))

ServiceOutcomes ==
    {[raised |-> TRUE, exc |-> E_Connection, output_text |-> <<>>]}
    \cup {[raised |-> FALSE, exc |-> E_Connection, output_text |-> t] :
            t \in BlankTexts \cup GarbageTexts \cup {Dumps(d) : d \in DataPool}
                  \cup {<<" ", "\n">> \o Dumps(ReqFull) \o <<" ">>}}

(***************************************************************************)
(* The state.  Each request has its own handler activation:                *)
(*   pc         where the handler is: idle (no request yet), received,     *)
(*              calling (waiting for the external service), done           *)
(*   form       the submitted form fields                                  *)
(*   raw_text   the local raw_text of generate_word                        *)
(*   sent       the requests this activation sent to the external service  *)
(*   extracted  what generate_requirements_from_text returned              *)
(*   data       the local data of generate_word when it was rendered       *)
(*   answer     what the external service answered                         *)
(*   caught     the exceptions the except clauses of generate_word caught  *)
(*   responses  the responses returned to the client                       *)
(*   trace      the stages run, in order                                   *)
(* api_key is the OPENAI_API_KEY of the process environment.               *)
(***************************************************************************)
VARIABLES api_key, pc, form, raw_text, sent, answer, extracted, data, caught, responses, trace

vars == <<api_key, pc, form, raw_text, sent, answer, extracted, data, caught, responses, trace>>

RequestIds == {"r1", "r2"}
Unset == [t |-> "unset"]

Init ==
    /\ api_key \in ApiKeys
    /\ pc = [r \in RequestIds |-> "idle"]
    /\ form = [r \in RequestIds |-> NoSubmission]
    /\ raw_text = [r \in RequestIds |-> <<>>]
    /\ sent = [r \in RequestIds |-> <<>>]
    /\ answer = [r \in RequestIds |-> <<>>]
    /\ extracted = [r \in RequestIds |-> Unset]
    /\ caught = [r \in RequestIds |-> <<>>]
    /\ data = [r \in RequestIds |-> Unset]
    /\ responses = [r \in RequestIds |-> <<>>]
    /\ trace = [r \in RequestIds |-> <<>>]

\* GET /: form_page, lines 546-549
FormPage(r) ==
    /\ pc[r] = "idle"
    /\ pc' = [pc EXCEPT ![r] = "done"]
    /\ trace' = [trace EXCEPT ![r] = <<"form_page">>]
    /\ responses' = [responses EXCEPT ![r] = <<HTMLResponse(render_form_page(<<>>, <<>>, "text", NoMessage))>>]
    /\ UNCHANGED <<api_key, form, raw_text, sent, answer, extracted, data, caught>>

\* POST /generate arrives with its form fields
Post(r, submission) ==
    /\ pc[r] = "idle"
    /\ pc' = [pc EXCEPT ![r] = "received"]
    /\ form' = [form EXCEPT ![r] = submission]
    /\ UNCHANGED <<api_key, raw_text, sent, answer, extracted, data, caught, responses, trace>>

\* the state of a handler activation when it returns `response`
Returned(response, extractedVal, dataVal, stages) ==
    [response |-> response, extracted |-> extractedVal, data |-> dataVal, caught |-> <<>>,
     stages |-> stages, next |-> "done", sent |-> <<>>]

\* the state of a handler activation whose except clause returned the form
Excepted(f, exc, extractedVal, dataVal, stages) ==
    [response |-> HandleException(f, exc), extracted |-> extractedVal, data |-> dataVal,
     caught |-> <<exc>>, stages |-> stages, next |-> "done", sent |-> <<>>]

\* the state of a handler activation that goes on
Continues(next, raw, requests, stages) ==
    [next |-> next, raw_text |-> raw, sent |-> requests, caught |-> <<>>, responses |-> <<>>,
     stages |-> stages]

\* the state of a handler activation that failed before the call
Failed(f, exc, raw, stages) ==
    [next |-> "done", raw_text |-> raw, sent |-> <<>>, caught |-> <<exc>>,
     responses |-> <<HandleException(f, exc)>>, stages |-> stages]

\* generate_requirements_from_text, lines 23-90, called at line 588
StartExtract(f, resolved, key) ==
    IF ~key.ok THEN Failed(f, key.exc, resolved.v, <<"resolve", "extract">>)
    ELSE Continues("calling", resolved.v, <<ServiceRequest(key.v, resolved.v)>>,
                   <<"resolve", "extract", "call">>)

\* StartResolved that goes on to the extractor after a failed resolution
StartResolvedAnyway(f, resolved, env_key) ==
    StartExtract(f, IF resolved.ok THEN resolved ELSE Return(<<>>), CheckApiKey(env_key))
\* lines 560-588
StartResolved(f, resolved, env_key) ==
    IF ~resolved.ok THEN Failed(f, resolved.exc, <<>>, <<"resolve">>)
    ELSE StartExtract(f, resolved, CheckApiKey(env_key))

Start(f, env_key) == StartResolved(f, ResolveInput(f), env_key)

\* generate_word from its start to the call of the external service:
\* lines 560-588 and, in generate_requirements_from_text, lines 23-90
Begin(r) ==
    /\ pc[r] = "received"
    /\ \E st \in {Start(form[r], api_key)} :
        /\ pc' = [pc EXCEPT ![r] = st.next]
        /\ trace' = [trace EXCEPT ![r] = @ \o st.stages]
        /\ raw_text' = [raw_text EXCEPT ![r] = st.raw_text]
        /\ sent' = [sent EXCEPT ![r] = @ \o st.sent]
        /\ caught' = [caught EXCEPT ![r] = @ \o st.caught]
        /\ responses' = [responses EXCEPT ![r] = @ \o st.responses]
    /\ UNCHANGED <<api_key, form, answer, extracted, data>>

\* lines 597-606
FinishRendered(f, parsed, overridden, doc_bytes) ==
    IF ~doc_bytes.ok
    THEN Excepted(f, doc_bytes.exc, parsed.v, overridden.v, <<"override", "render">>)
    ELSE Returned(StreamingResponse(doc_bytes.v, AttachmentFilename(overridden.v)),
                  parsed.v, overridden.v, <<"override", "render", "respond">>)

\* lines 594-595
FinishOverridden(f, parsed, overridden) ==
    IF ~overridden.ok
    THEN Excepted(f, overridden.exc, parsed.v, Unset, <<"override">>)
    ELSE FinishRendered(f, parsed, overridden, create_word_bytes_from_requirements(overridden.v))

\* lines 590-592
FinishParsed(f, parsed) ==
    IF ~parsed.ok THEN Excepted(f, parsed.exc, Unset, Unset, <<>>)
    ELSE FinishOverridden(f, parsed, OverrideProjectKey(parsed.v, f.project_key))

\* Finish that calls the service again when the call failed or answered nothing
FinishRetrying(f, outcome) ==
    IF outcome.raised \/ Strip(outcome.output_text) = <<>>
    THEN [Excepted(f, outcome.exc, Unset, Unset, <<"call">>) EXCEPT
            !.next = "calling", !.caught = <<>>,
            !.sent = <<ServiceRequest(<<>>, Strip(f.conversation_text))>>]
    ELSE FinishParsed(f, ParseOutput(outcome.output_text))
\* lines 82-109 of generate_requirements_from_text once the service answered,
\* then lines 590-628 of generate_word
Finish(f, outcome) ==
    IF outcome.raised THEN Excepted(f, outcome.exc, Unset, Unset, <<>>)
    ELSE FinishParsed(f, ParseOutput(outcome.output_text))

\* ServiceReturn that works on the submission of the other request once there
\* is one, as a handler would that kept the submission in a module-level name
ServiceReturnShared(r, outcome) ==
    /\ pc[r] = "calling"
    /\ \E q \in RequestIds :
        /\ q = r \/ pc[q] # "idle"
        /\ \A p \in RequestIds \ {r} : pc[p] # "idle" => q # r
        /\ \E fin \in {Finish(form[q], outcome)} :
            /\ pc' = [pc EXCEPT ![r] = fin.next]
            /\ sent' = [sent EXCEPT ![r] = @ \o fin.sent]
            /\ responses' = [responses EXCEPT ![r] = IF fin.next = "done" THEN Append(@, fin.response) ELSE @]
            /\ extracted' = [extracted EXCEPT ![r] = fin.extracted]
            /\ data' = [data EXCEPT ![r] = fin.data]
            /\ caught' = [caught EXCEPT ![r] = @ \o fin.caught]
            /\ trace' = [trace EXCEPT ![r] = @ \o fin.stages]
    /\ answer' = [answer EXCEPT ![r] = Append(@, outcome)]
    /\ UNCHANGED <<api_key, form, raw_text>>
\* generate_word from the return of the external service to its end
ServiceReturn(r, outcome) ==
    /\ pc[r] = "calling"
    /\ \E fin \in {Finish(form[r], outcome)} :
        /\ pc' = [pc EXCEPT ![r] = fin.next]
        /\ sent' = [sent EXCEPT ![r] = @ \o fin.sent]
        /\ responses' = [responses EXCEPT ![r] = IF fin.next = "done" THEN Append(@, fin.response) ELSE @]
        /\ extracted' = [extracted EXCEPT ![r] = fin.extracted]
        /\ data' = [data EXCEPT ![r] = fin.data]
        /\ caught' = [caught EXCEPT ![r] = @ \o fin.caught]
        /\ trace' = [trace EXCEPT ![r] = @ \o fin.stages]
    /\ answer' = [answer EXCEPT ![r] = Append(@, outcome)]
    /\ UNCHANGED <<api_key, form, raw_text>>

Next ==
    \/ FormPage("r1")
    \/ \E submission \in Submissions : Post("r1", submission)
    \/ Begin("r1")
    \/ \E outcome \in ServiceOutcomes : ServiceReturn("r1", outcome)

Spec == Init /\ [][Next]_vars

(***************************************************************************)
(* Properties.                                                             *)
(***************************************************************************)
\* a POST /generate that has arrived, and one whose handler has returned
Posted(r) == pc[r] # "idle" /\ trace[r] # <<"form_page">>
Completed(r) == pc[r] = "done" /\ trace[r] # <<"form_page">>
Resp(r) == responses[r][1]
Succeeded(r) == Completed(r) /\ responses[r] # <<>> /\ Resp(r).kind = "attachment"

Blank(s) == \A i \in 1..Len(s) : s[i] \in Whitespace

\* t is s without its leading and trailing whitespace
IsTrimOf(t, s) ==
    /\ t # <<>>
    /\ t[1] \notin Whitespace
    /\ t[Len(t)] \notin Whitespace
    /\ \E a \in 1..Len(s) :
        /\ a + Len(t) - 1 <= Len(s)
        /\ t = SubSeq(s, a, a + Len(t) - 1)
        /\ \A i \in 1..Len(s) : (i < a \/ i > a + Len(t) - 1) => s[i] \in Whitespace

RECURSIVE SortedSeq(_)
SortedSeq(S) ==
    IF S = {} THEN <<>>
    ELSE LET m == CHOOSE x \in S : \A y \in S : x <= y IN <<m>> \o SortedSeq(S \ {m})

\* C1: every POST /generate ends with exactly one response, the attachment or
\* the form (200) with an error message; every exception raised in the handler
\* is caught and answered with the form, never with an attachment or an error
\* response.
C1_ExactlyOneResponse ==
    \A r \in RequestIds :
        /\ (Posted(r) /\ pc[r] # "done") => responses[r] = <<>>
        /\ Completed(r) =>
            /\ Len(responses[r]) = 1
            /\ Resp(r).status = 200
            /\ Resp(r).kind \in {"attachment", "form"}
            /\ (Resp(r).kind = "attachment") <=> (caught[r] = <<>>)
            /\ Resp(r).kind = "form" =>
                /\ Len(caught[r]) = 1
                /\ Resp(r).page.error_shown
                /\ Resp(r).page.error_html.fmt # ""

\* C1 witness: the extractor succeeded, the renderer raised, and the form came back
C1_Witness ==
    \E r \in RequestIds :
        /\ Completed(r)
        /\ trace[r] = <<"resolve", "extract", "call", "override", "render">>
        /\ extracted[r] # Unset
        /\ caught[r] # <<>>
        /\ Resp(r).kind = "form"

\* the requirements of a RequirementSet and the heading of one of them
RequirementsOf(d) == DictGet(d.v, K_requirements, JList(<<>>))
HeadingText(req) ==
    PyStr(DictGet(req.v, K_id, JStr(S_REQ_unknown))) \o <<":", " ">>
    \o PyStr(DictGet(req.v, K_summary, JStr(<<>>)))

\* the blocks of a document after its title and overview, and where its
\* requirement sections start
FrontLen == Len(FrontMatter(JNull))
SectionStarts(body) ==
    SortedSeq({i \in (FrontLen + 1)..Len(body) : body[i].kind = "heading" /\ body[i].level = 1})
SectionEnd(body, starts, k) == IF k < Len(starts) THEN starts[k + 1] - 1 ELSE Len(body)

\* C2: a rendered document has one section per requirement, in the order of
\* the requirements; section k starts with the heading "<id>: <summary>" of
\* requirement k, ends with a page break and holds no other page break.
C2_SectionsInOrder ==
    \A r \in RequestIds :
        (Succeeded(r) /\ RequirementsOf(data[r]).t = "list") =>
            LET reqs == RequirementsOf(data[r]).v
                body == Resp(r).body
                starts == SectionStarts(body)
            IN  /\ Len(starts) = Len(reqs)
                /\ Len(reqs) = 0 => Len(body) = FrontLen
                /\ \A k \in 1..Len(starts) :
                    /\ k = 1 => starts[k] = FrontLen + 1
                    /\ body[starts[k]].runs[1].text = HeadingText(reqs[k])
                    /\ body[SectionEnd(body, starts, k)].kind = "page_break"
                    /\ \A i \in starts[k]..(SectionEnd(body, starts, k) - 1) :
                        body[i].kind # "page_break"

\* C2 witness: two requirements, R2 before R1, rendered in that order
C2_Witness ==
    \E r \in RequestIds :
        /\ Succeeded(r)
        /\ RequirementsOf(data[r]) = JList(<<ReqThirteen, ReqFull>>)
        /\ Len(SectionStarts(Resp(r).body)) = 2

\* C3: in text mode a text of nothing but whitespace fails with the "enter
\* some text" ValueError and no request to the service; any other text
\* resolves to the text without its leading and trailing whitespace, and that
\* is the text sent to the service.
C3_TextMode ==
    \A r \in RequestIds :
        (Posted(r) /\ pc[r] \in {"calling", "done"} /\ form[r].input_mode # "file") =>
            IF Blank(form[r].conversation_text)
            THEN /\ caught[r] = <<Exc("ValueError", M_NoText)>>
                 /\ sent[r] = <<>>
                 /\ Resp(r).kind = "form"
                 /\ Resp(r).page.error_html = M_NoText
            ELSE /\ IsTrimOf(raw_text[r], form[r].conversation_text)
                 /\ \A i \in 1..Len(sent[r]) : sent[r][i].user = raw_text[r]
                 /\ \A i \in 1..Len(caught[r]) : caught[r][i].msg # M_NoText
                 /\ CheckApiKey(api_key).ok => Len(sent[r]) = 1

\* C3 witness: a text with whitespace around it was sent trimmed
C3_Witness ==
    \E r \in RequestIds :
        /\ pc[r] = "calling"
        /\ form[r].input_mode = "text"
        /\ form[r].conversation_text = <<" ", "<">>
        /\ sent[r][1].user = <<"<">>

\* name ends with the extension ext, whatever the case of its letters
HasExt(name, ext) == EndsWith(Lower(name), ext)

\* C4: in file mode, no file or an empty filename fails with the "please
\* upload" ValueError and the form; a .txt file resolves to its decoded bytes;
\* a .docx file that holds a Word document resolves to its paragraphs joined by
\* newlines (one that cannot be opened ends in the form, nothing is sent); any
\* other name fails with the "only .txt and .docx" ValueError.
C4_FileMode ==
    \A r \in RequestIds :
        (Posted(r) /\ pc[r] \in {"calling", "done"} /\ form[r].input_mode = "file") =>
            LET u == form[r].upload_file IN
            IF ~u.present \/ u.filename = <<>>
            THEN /\ caught[r] = <<Exc("ValueError", M_NoFile)>>
                 /\ sent[r] = <<>>
                 /\ Resp(r).kind = "form"
                 /\ Resp(r).page.error_html = M_NoFile
            ELSE IF HasExt(u.filename, S_dot_txt)
            THEN /\ raw_text[r] = Utf8DecodeIgnore(u.bytes)
                 /\ Len(trace[r]) >= 2
                 /\ \A i \in 1..Len(sent[r]) : sent[r][i].user = raw_text[r]
            ELSE IF HasExt(u.filename, S_dot_docx)
            THEN IF u.package.kind = "word"
                 THEN /\ raw_text[r] = Join(<<"\n">>, u.package.paragraphs)
                      /\ Len(trace[r]) >= 2
                      /\ \A i \in 1..Len(sent[r]) : sent[r][i].user = raw_text[r]
                 ELSE /\ Len(caught[r]) = 1
                      /\ sent[r] = <<>>
                      /\ Resp(r).kind = "form"
            ELSE /\ caught[r] = <<Exc("ValueError", M_Unsupported)>>
                 /\ sent[r] = <<>>
                 /\ Resp(r).kind = "form"
                 /\ Resp(r).page.error_html = M_Unsupported

\* C4 witness: N.Txt resolved to its decoded content, the invalid byte dropped,
\* and was sent to the service
C4_Witness ==
    \E r \in RequestIds :
        /\ pc[r] = "calling"
        /\ form[r].input_mode = "file"
        /\ form[r].upload_file.filename = <<"N", ".", "T", "x", "t">>
        /\ raw_text[r] = <<" ", "U+00E9", "<">>
        /\ sent[r][1].user = raw_text[r]

\* C5: an output of nothing but whitespace fails with the "empty response"
\* ValueError; another output that is not JSON fails with the "not valid JSON"
\* ValueError, whose message holds the decoder's error and the first
\* min(200, length) characters of the output, newlines as spaces; neither
\* returns requirements.
C5_BadOutput ==
    \A r \in RequestIds :
        (Completed(r) /\ answer[r] # <<>> /\ ~answer[r][1].raised) =>
            LET out == answer[r][1].output_text IN
            /\ Blank(out) =>
                /\ caught[r] = <<Exc("ValueError", M_EmptyResponse)>>
                /\ extracted[r] = Unset
                /\ Resp(r).kind = "form"
            /\ (~Blank(out) /\ ~JsonLoads(out).ok) =>
                /\ Len(caught[r]) = 1
                /\ caught[r][1].cls = "ValueError"
                /\ caught[r][1].msg.fmt = M_NotJson(JsonLoads(out), <<>>).fmt
                /\ caught[r][1].msg.what = JsonLoads(out).what
                /\ caught[r][1].msg.pos = JsonLoads(out).pos
                /\ LET preview == caught[r][1].msg.preview IN
                    /\ Len(preview) <= PreviewLen
                    /\ Len(preview) = Min(Len(out), PreviewLen)
                    /\ \A i \in 1..Len(preview) :
                        preview[i] = IF out[i] = "\n" THEN " " ELSE out[i]
                /\ extracted[r] = Unset
                /\ Resp(r).kind = "form"
            /\ out \in GarbageTexts => ~JsonLoads(out).ok

\* C5 witness: an output longer than the preview that is not JSON
C5_Witness ==
    \E r \in RequestIds :
        /\ Completed(r)
        /\ answer[r] # <<>>
        /\ ~answer[r][1].raised
        /\ Len(answer[r][1].output_text) > PreviewLen
        /\ caught[r] # <<>>
        /\ caught[r][1].msg.what = "Expecting value"
        /\ Len(caught[r][1].msg.preview) = PreviewLen

KeyMissing == ~api_key.set \/ api_key.value = <<>>

\* C6: with OPENAI_API_KEY unset or empty, a POST whose input resolved fails
\* with the "missing key" ValueError shown in the form and nothing is sent to
\* the service; GET / serves the form, without an error, whatever the key.
C6_MissingKey ==
    \A r \in RequestIds :
        /\ (Posted(r) /\ pc[r] \in {"calling", "done"} /\ KeyMissing /\ ResolveInput(form[r]).ok) =>
            /\ pc[r] = "done"
            /\ sent[r] = <<>>
            /\ answer[r] = <<>>
            /\ caught[r] = <<Exc("ValueError", M_MissingKey)>>
            /\ Resp(r).kind = "form"
            /\ Resp(r).page.error_shown
            /\ Resp(r).page.error_html = M_MissingKey
        /\ (pc[r] = "done" /\ trace[r] = <<"form_page">>) =>
            /\ Resp(r).kind = "form"
            /\ Resp(r).status = 200
            /\ ~Resp(r).page.error_shown

\* C6 witness: the key is set to the empty string and a text was submitted
C6_Witness ==
    \E r \in RequestIds :
        /\ Completed(r)
        /\ api_key.set
        /\ api_key.value = <<>>
        /\ raw_text[r] # <<>>
        /\ Resp(r).page.error_html = M_MissingKey

\* C7: the attachment is named "<key>_requirements.docx", the key being the
\* submitted project_key if not empty, else the project_key of the extractor's
\* result, else "PROJECT"; a submitted key replaces the extractor's before the
\* document is rendered.
C7_Filename ==
    \A r \in RequestIds :
        Succeeded(r) =>
            LET user == form[r].project_key
                final == IF user # <<>> THEN user
                         ELSE IF K_project_key \in DOMAIN extracted[r].v
                         THEN PyStr(extracted[r].v[K_project_key])
                         ELSE S_PROJECT
            IN  /\ Resp(r).filename = final \o S_requirements_docx
                /\ Resp(r).body[1].runs[1].text = final \o S_title_suffix
                /\ user # <<>> => data[r].v[K_project_key] = JStr(user)

\* C7 witness: the submitted key K replaced the extractor's key S
C7_Witness ==
    \E r \in RequestIds :
        /\ Succeeded(r)
        /\ form[r].project_key = <<"K">>
        /\ K_project_key \in DOMAIN extracted[r].v
        /\ extracted[r].v[K_project_key] = JStr(<<"S">>)
        /\ Resp(r).filename = <<"K">> \o S_requirements_docx

\* the metadata paragraph of section k, and the paragraphs of the section that
\* start with the run `label`
MetaOf(body, starts, k) == body[starts[k] + 1]
Labelled(body, starts, k, label) ==
    {i \in starts[k]..SectionEnd(body, starts, k) :
        body[i].kind = "paragraph" /\ body[i].runs # <<>> /\ body[i].runs[1].text = label}
StoryPointsLabel == <<"   |   Story Points: ">>
DependenciesLabel == <<"Dependencies: ">>

\* C8: the metadata line of a requirement without story_points (absent or
\* null) has no story-points segment; with story_points n it ends with the
\* segment "Story Points: " and the decimal digits of n.
C8_StoryPoints ==
    \A r \in RequestIds :
        (Succeeded(r) /\ RequirementsOf(data[r]).t = "list") =>
            LET reqs == RequirementsOf(data[r]).v
                body == Resp(r).body
                starts == SectionStarts(body)
            IN  \A k \in 1..Len(reqs) :
                    LET runs == MetaOf(body, starts, k).runs
                        sp == DictGet(reqs[k].v, K_story_points, JNull)
                    IN  IF sp.t = "null"
                        THEN /\ Len(runs) = 4
                             /\ \A i \in 1..Len(runs) : runs[i].text # StoryPointsLabel
                        ELSE /\ Len(runs) = 6
                             /\ runs[5].text = StoryPointsLabel
                             /\ \A i \in 1..Len(runs[6].text) : runs[6].text[i] \in DigitChars
                             /\ Len(runs[6].text) > 1 => runs[6].text[1] # "0"
                             /\ DigitsValue(runs[6].text, 1, Len(runs[6].text) + 1) = sp.v

\* C8 witness: story_points 13 rendered as "13", next to a requirement without
C8_Witness ==
    \E r \in RequestIds :
        /\ Succeeded(r)
        /\ RequirementsOf(data[r]) = JList(<<ReqEmpty, ReqThirteen>>)
        /\ MetaOf(Resp(r).body, SectionStarts(Resp(r).body), 2).runs[6].text = <<"1", "3">>
        /\ Len(MetaOf(Resp(r).body, SectionStarts(Resp(r).body), 1).runs) = 4

\* C9: the section of a requirement without dependencies has no dependencies
\* line; with a non-empty list it has exactly one, right after the metadata
\* line, holding the entries joined by ", " in their order.
C9_Dependencies ==
    \A r \in RequestIds :
        (Succeeded(r) /\ RequirementsOf(data[r]).t = "list") =>
            LET reqs == RequirementsOf(data[r]).v
                body == Resp(r).body
                starts == SectionStarts(body)
            IN  \A k \in 1..Len(reqs) :
                    LET lines == Labelled(body, starts, k, DependenciesLabel) IN
                    IF K_dependencies \notin DOMAIN reqs[k].v
                    THEN lines = {}
                    ELSE LET deps == reqs[k].v[K_dependencies] IN
                         (deps.t = "list" /\ deps.v # <<>>) =>
                            /\ lines = {starts[k] + 2}
                            /\ Len(body[starts[k] + 2].runs) = 2
                            /\ body[starts[k] + 2].runs[2].text
                                 = Join(<<",", " ">>, [i \in 1..Len(deps.v) |-> deps.v[i].v])

\* C9 witness: the dependencies R2, R3 rendered as "R2, R3"
C9_Witness ==
    \E r \in RequestIds :
        /\ Succeeded(r)
        /\ RequirementsOf(data[r]) = JList(<<ReqFull, ReqEmpty>>)
        /\ Resp(r).body[FrontLen + 3].runs[2].text = <<"R", "2", ",", " ", "R", "3">>

\* what a browser shows for escaped text: the character references of
\* html.escape decoded
EntityChar(name) ==
    CASE name = <<"a", "m", "p">> -> "&"
      [] name = <<"l", "t">> -> "<"
      [] name = <<"g", "t">> -> ">"
      [] name = <<"q", "u", "o", "t">> -> "\""
      [] name = <<"#", "x", "2", "7">> -> "'"
      [] OTHER -> "?"

RECURSIVE SemicolonFrom(_, _)
SemicolonFrom(s, i) == IF i > Len(s) THEN 0 ELSE IF s[i] = ";" THEN i ELSE SemicolonFrom(s, i + 1)

RECURSIVE HtmlUnescape(_)
HtmlUnescape(s) ==
    IF s = <<>> THEN <<>>
    ELSE IF s[1] = "&" /\ SemicolonFrom(s, 2) # 0
    THEN <<EntityChar(SubSeq(s, 2, SemicolonFrom(s, 2) - 1))>>
         \o HtmlUnescape(SubSeq(s, SemicolonFrom(s, 2) + 1, Len(s)))
    ELSE <<s[1]>> \o HtmlUnescape(Tail(s))

\* C10: the form returned after a failure shows the conversation_text and the
\* project_key as submitted, and the submitted mode (text or file) checked.
C10_FormKeepsInput ==
    \A r \in RequestIds :
        (Completed(r) /\ Resp(r).kind = "form") =>
            /\ HtmlUnescape(Resp(r).page.textarea) = form[r].conversation_text
            /\ HtmlUnescape(Resp(r).page.project_key_value) = form[r].project_key
            /\ form[r].input_mode = "text" =>
                Resp(r).page.text_checked /\ ~Resp(r).page.file_checked
            /\ form[r].input_mode = "file" =>
                Resp(r).page.file_checked /\ ~Resp(r).page.text_checked

\* C10 witness: file mode, the upload resolved, the extractor returned a key
\* and the renderer failed: the form shows the submitted text, untrimmed, and
\* the submitted (empty) key
C10_Witness ==
    \E r \in RequestIds :
        /\ Completed(r)
        /\ Resp(r).kind = "form"
        /\ form[r].input_mode = "file"
        /\ form[r].conversation_text = <<" ", "<">>
        /\ form[r].project_key = <<>>
        /\ extracted[r] # Unset
        /\ extracted[r].t = "dict"
        /\ K_project_key \in DOMAIN extracted[r].v
        /\ raw_text[r] # form[r].conversation_text
        /\ Resp(r).page.textarea = <<" ", "&", "l", "t", ";">>

\* C11: a request sends at most one request to the external service and gets
\* at most one answer; once the service has answered (an error, an empty or a
\* non-JSON output included) the handler is done and nothing more is sent.
C11_AtMostOneCall ==
    \A r \in RequestIds :
        /\ Len(sent[r]) <= 1
        /\ Len(answer[r]) <= Len(sent[r])
        /\ answer[r] # <<>> => pc[r] = "done" /\ Len(responses[r]) = 1
        /\ pc[r] = "calling" => Len(sent[r]) = 1 /\ answer[r] = <<>>

\* C11 witness: the call failed and the request ended with the one call
C11_Witness ==
    \E r \in RequestIds :
        /\ Completed(r)
        /\ Len(sent[r]) = 1
        /\ answer[r] # <<>>
        /\ answer[r][1].raised
        /\ Resp(r).kind = "form"

StageOrder == <<"resolve", "extract", "call", "override", "render", "respond">>
IsPrefix(s, t) == Len(s) <= Len(t) /\ SubSeq(t, 1, Len(s)) = s
Ran(r, stage) == \E i \in 1..Len(trace[r]) : trace[r][i] = stage

\* the extractor was entered and raised: the key is missing, the call failed
\* or the output was refused
ExtractionFailed(r) ==
    /\ ResolveInput(form[r]).ok
    /\ \/ ~CheckApiKey(api_key).ok
       \/ /\ answer[r] # <<>>
          /\ answer[r][1].raised \/ ~ParseOutput(answer[r][1].output_text).ok

\* C12: the stages of a request run in the order resolve, extract (with its
\* call), override, render, respond, none twice and none skipped; after a
\* failed resolution nothing else runs and nothing is sent; after a failed
\* extraction neither the override nor the renderer runs; a successful request
\* ran them all.
C12_StageOrder ==
    \A r \in RequestIds :
        Posted(r) =>
            /\ IsPrefix(trace[r], StageOrder)
            /\ (pc[r] \in {"calling", "done"} /\ ~ResolveInput(form[r]).ok) =>
                /\ trace[r] = <<"resolve">>
                /\ sent[r] = <<>>
                /\ answer[r] = <<>>
                /\ extracted[r] = Unset
                /\ data[r] = Unset
            /\ (pc[r] = "done" /\ ExtractionFailed(r)) =>
                /\ ~Ran(r, "override")
                /\ ~Ran(r, "render")
                /\ extracted[r] = Unset
                /\ data[r] = Unset
                /\ Resp(r).kind = "form"
            /\ Ran(r, "call") <=> sent[r] # <<>>
            /\ Ran(r, "render") <=> data[r] # Unset
            /\ Succeeded(r) <=> trace[r] = StageOrder

\* C12 witness: the service answered something that is not JSON to a request
\* with a project key: the handler ended without override and rendering
C12_Witness ==
    \E r \in RequestIds :
        /\ Completed(r)
        /\ form[r].project_key # <<>>
        /\ answer[r] # <<>>
        /\ ~answer[r][1].raised
        /\ answer[r][1].output_text \in GarbageTexts
        /\ trace[r] = <<"resolve", "extract", "call">>
        /\ data[r] = Unset

(***************************************************************************)
(* The older version, src/unnamed/part_000.  Its                           *)
(* generate_requirements_from_text (17-110) and                            *)
(* create_word_bytes_from_requirements (116-189) are, line for line, those *)
(* of src/main.py; its render_form_page and generate_word are not.         *)
(***************************************************************************)
\* render_form_page, part_000 lines 194-267: no input mode
OldRenderFormPage(conversation_text, project_key, error_message) ==
    [error_shown |-> error_message.given /\ error_message.msg.fmt # "",
     error_html |-> IF error_message.given /\ error_message.msg.fmt # ""
                    THEN EscapeMsg(error_message.msg) ELSE Msg(""),
     textarea |-> HtmlEscape(conversation_text),
     project_key_value |-> HtmlEscape(project_key)]

\* the two except clauses, part_000 lines 308-324
OldHandleException(f, exc) ==
    HTMLResponse(OldRenderFormPage(f.conversation_text, f.project_key,
                                   Message(IF exc.cls \in ValueErrorClasses THEN exc.msg
                                           ELSE M_Generic(exc.msg))))

\* conversation_text is declared Form(...), a required field (line 285): the
\* framework answers a submission without a value for it by itself, 422, and
\* does not call generate_word
OldRejected ==
    [kind |-> "rejected", status |-> 422, page |-> OldRenderFormPage(<<>>, <<>>, NoMessage)]

OldExcepted(f, exc, extractedVal, dataVal, stages) ==
    [response |-> OldHandleException(f, exc), extracted |-> extractedVal, data |-> dataVal,
     caught |-> <<exc>>, stages |-> stages, next |-> "done", sent |-> <<>>]

\* part_000 lines 297-306
OldFinishRendered(f, parsed, overridden, doc_bytes) ==
    IF ~doc_bytes.ok
    THEN OldExcepted(f, doc_bytes.exc, parsed.v, overridden.v, <<"override", "render">>)
    ELSE Returned(StreamingResponse(doc_bytes.v, AttachmentFilename(overridden.v)),
                  parsed.v, overridden.v, <<"override", "render", "respond">>)

\* part_000 lines 294-295
OldFinishOverridden(f, parsed, overridden) ==
    IF ~overridden.ok
    THEN OldExcepted(f, overridden.exc, parsed.v, Unset, <<"override">>)
    ELSE OldFinishRendered(f, parsed, overridden,
                           create_word_bytes_from_requirements(overridden.v))

\* OldFinishParsed that keeps the extracted key
OldFinishParsedNoOverride(f, parsed) ==
    IF ~parsed.ok THEN OldExcepted(f, parsed.exc, Unset, Unset, <<>>)
    ELSE OldFinishOverridden(f, parsed, Return(parsed.v))
\* part_000 lines 290-292
OldFinishParsed(f, parsed) ==
    IF ~parsed.ok THEN OldExcepted(f, parsed.exc, Unset, Unset, <<>>)
    ELSE OldFinishOverridden(f, parsed, OverrideProjectKey(parsed.v, f.project_key))

\* part_000 lines 83-110 once the service answered, then lines 290-324
OldFinish(f, outcome) ==
    IF outcome.raised THEN OldExcepted(f, outcome.exc, Unset, Unset, <<>>)
    ELSE OldFinishParsed(f, ParseOutput(outcome.output_text))

\* part_000 line 288 and, in generate_requirements_from_text, lines 24-91:
\* conversation_text goes to the extractor as submitted
OldStartExtract(f, key) ==
    IF ~key.ok
    THEN [next |-> "done", raw_text |-> f.conversation_text, sent |-> <<>>, caught |-> <<key.exc>>,
          responses |-> <<OldHandleException(f, key.exc)>>, stages |-> <<"extract">>]
    ELSE Continues("calling", f.conversation_text,
                   <<ServiceRequest(key.v, f.conversation_text)>>, <<"extract", "call">>)

OldStart(f, env_key) ==
    IF f.conversation_text = <<>>
    THEN [next |-> "done", raw_text |-> <<>>, sent |-> <<>>, caught |-> <<>>,
          responses |-> <<OldRejected>>, stages |-> <<"rejected">>]
    ELSE OldStartExtract(f, CheckApiKey(env_key))

\* the older generate_word from its start to the call of the external service
OldBegin(r) ==
    /\ pc[r] = "received"
    /\ \E st \in {OldStart(form[r], api_key)} :
        /\ pc' = [pc EXCEPT ![r] = st.next]
        /\ trace' = [trace EXCEPT ![r] = @ \o st.stages]
        /\ raw_text' = [raw_text EXCEPT ![r] = st.raw_text]
        /\ sent' = [sent EXCEPT ![r] = @ \o st.sent]
        /\ caught' = [caught EXCEPT ![r] = @ \o st.caught]
        /\ responses' = [responses EXCEPT ![r] = @ \o st.responses]
    /\ UNCHANGED <<api_key, form, answer, extracted, data>>

\* the older generate_word from the return of the external service to its end
OldServiceReturn(r, outcome) ==
    /\ pc[r] = "calling"
    /\ \E fin \in {OldFinish(form[r], outcome)} :
        /\ pc' = [pc EXCEPT ![r] = fin.next]
        /\ sent' = [sent EXCEPT ![r] = @ \o fin.sent]
        /\ responses' = [responses EXCEPT ![r] = IF fin.next = "done" THEN Append(@, fin.response) ELSE @]
        /\ extracted' = [extracted EXCEPT ![r] = fin.extracted]
        /\ data' = [data EXCEPT ![r] = fin.data]
        /\ caught' = [caught EXCEPT ![r] = @ \o fin.caught]
        /\ trace' = [trace EXCEPT ![r] = @ \o fin.stages]
    /\ answer' = [answer EXCEPT ![r] = Append(@, outcome)]
    /\ UNCHANGED <<api_key, form, raw_text>>

(***************************************************************************)
(* The two versions side by side: the same submission (a text, a project   *)
(* key, no file) goes to the newer handler as request r1, in text mode,    *)
(* and to the older handler as request r2, and the external service        *)
(* answers both the same.                                                  *)
(***************************************************************************)
TextSubmissions ==
    [conversation_text : Texts, project_key : Keys, input_mode : {"text"}, upload_file : {NoUpload}]

PostBoth(submission) ==
    /\ pc["r1"] = "idle"
    /\ pc["r2"] = "idle"
    /\ pc' = [r \in RequestIds |-> "received"]
    /\ form' = [r \in RequestIds |-> submission]
    /\ UNCHANGED <<api_key, raw_text, sent, answer, extracted, data, caught, responses, trace>>

\* the service gives request r the answer it gave, or will give, request other
SameAnswer(other, outcome) ==
    /\ pc[other] # "received"
    /\ answer[other] # <<>> => outcome = answer[other][1]

NewAnswer(outcome) == SameAnswer("r2", outcome) /\ ServiceReturn("r1", outcome)
OldAnswer(outcome) == SameAnswer("r1", outcome) /\ OldServiceReturn("r2", outcome)

NextVersions ==
    \/ \E submission \in TextSubmissions : PostBoth(submission)
    \/ Begin("r1")
    \/ OldBegin("r2")
    \/ \E outcome \in ServiceOutcomes : NewAnswer(outcome)
    \/ \E outcome \in ServiceOutcomes : OldAnswer(outcome)

SpecVersions == Init /\ [][NextVersions]_vars

\* what the claim compares: success or failure, the texts sent to the service,
\* and for a success the document and the filename
Outcome(r) ==
    [success |-> Resp(r).kind = "attachment",
     texts |-> [i \in 1..Len(sent[r]) |-> sent[r][i].user],
     document |-> IF Resp(r).kind = "attachment" THEN Resp(r).body ELSE <<>>,
     filename |-> IF Resp(r).kind = "attachment" THEN Resp(r).filename ELSE <<>>]

BothDone == pc["r1"] = "done" /\ pc["r2"] = "done" /\ trace["r1"] # <<"form_page">>

\* C13 as claimed: for every text, project key and answer of the service the
\* two versions end with the same outcome.
C13_SameOutcome == BothDone => Outcome("r1") = Outcome("r2")

\* C13: for a text that is not empty and has no leading or trailing
\* whitespace, the two versions end with the same outcome: the same success or
\* failure, the same text sent, the same document and the same filename, and
\* on a failure the same exception caught.
C13_SameOutcomeTrimmed ==
    (BothDone /\ form["r1"].conversation_text # <<>>
              /\ Strip(form["r1"].conversation_text) = form["r1"].conversation_text) =>
        /\ Outcome("r1") = Outcome("r2")
        /\ caught["r1"] = caught["r2"]
        /\ extracted["r1"] = extracted["r2"]

\* C13 witness: both versions returned the document of the same extraction,
\* named after the submitted key
C13_Witness ==
    /\ BothDone
    /\ form["r1"].conversation_text = <<"<">>
    /\ form["r1"].project_key = <<"K">>
    /\ Resp("r1").kind = "attachment"
    /\ Resp("r2").kind = "attachment"
    /\ Resp("r2").filename = <<"K">> \o S_requirements_docx
    /\ RequirementsOf(data["r2"]) = JList(<<ReqFull>>)

\* the errors the resolver and the extractor raise themselves: lines 565, 580,
\* 585 (validation), 25-28 (configuration), 97 (empty response), 104-107
\* (schema)
OwnError(exc) ==
    /\ exc.cls = "ValueError"
    /\ \/ exc.msg \in {M_NoFile, M_Unsupported, M_NoText, M_MissingKey, M_EmptyResponse}
       \/ exc.msg.fmt = M_NotJson(PErr("", 1), <<>>).fmt

\* C14 as claimed: a failed request shows a non-empty message: the error's own
\* message for a validation, configuration, empty-response or schema error of
\* the resolver or the extractor, the generic message followed by the
\* exception's description for any other failure.
C14_ErrorKinds ==
    \A r \in RequestIds :
        (Completed(r) /\ Resp(r).kind = "form") =>
            /\ Len(caught[r]) = 1
            /\ Resp(r).page.error_shown
            /\ Resp(r).page.error_html.fmt # ""
            /\ IF OwnError(caught[r][1])
               THEN Resp(r).page.error_html = EscapeMsg(caught[r][1].msg)
               ELSE Resp(r).page.error_html = EscapeMsg(M_Generic(caught[r][1].msg))

(***************************************************************************)
(* The renderer on requirement sets with fields left out: the service      *)
(* answers a text submission with a set that holds any subset of the       *)
(* fields of one requirement, with or without project_key, or no           *)
(* requirements at all.                                                    *)
(***************************************************************************)
ReqFields ==
    {K_id, K_issue_type, K_summary, K_description, K_priority, K_story_points,
     K_acceptance_criteria, K_dependencies}

ReqWith(fields) == JDict([k \in fields |-> ReqFull.v[k]])

PartialData ==
    LET sets == {Rec2Dict(<<K_requirements>>, <<JList(<<ReqWith(fields)>>)>>) :
                    fields \in SUBSET ReqFields}
                \cup {JDict(EmptyDict)}
    IN  sets \cup {WithKey(d, JStr(<<"S">>)) : d \in sets}

PartialOutcomes ==
    {[raised |-> FALSE, exc |-> E_Connection, output_text |-> Dumps(d)] : d \in PartialData}

RenderSubmissions ==
    [conversation_text : {<<"<">>}, project_key : Keys, input_mode : {"text"},
     upload_file : {NoUpload}]

NextRender ==
    \/ \E submission \in RenderSubmissions : Post("r1", submission)
    \/ Begin("r1")
    \/ \E outcome \in PartialOutcomes : ServiceReturn("r1", outcome)

SpecRender == Init /\ [][NextRender]_vars

\* the value of field k of dictionary d as text, or the text dflt
TextOr(d, k, dflt) == IF k \in DOMAIN d.v THEN d.v[k].v ELSE dflt

\* C15: whatever fields are missing, rendering completes: the title carries
\* the project key or PROJECT; without requirements there is no section; a
\* requirement's heading, metadata line, description and criteria carry the
\* values given, and REQ-?, Story, Medium, empty texts, no story points, no
\* bullets and no dependencies line for those missing.
C15_Defaults ==
    \A r \in RequestIds :
        (Completed(r) /\ answer[r] # <<>>) =>
            /\ Resp(r).kind = "attachment"
            /\ extracted[r].t = "dict"
            /\ LET d == extracted[r]
                   body == Resp(r).body
                   sec == SubSeq(body, FrontLen + 1, Len(body))
               IN
               /\ body[1].runs[1].text =
                    (IF form[r].project_key # <<>> THEN form[r].project_key
                     ELSE TextOr(d, K_project_key, <<"P", "R", "O", "J", "E", "C", "T">>))
                    \o S_title_suffix
               /\ IF K_requirements \notin DOMAIN d.v
                  THEN sec = <<>>
                  ELSE
                  LET req == d.v[K_requirements].v[1]
                      o == IF K_dependencies \in DOMAIN req.v THEN 1 ELSE 0
                  IN
                  /\ Len(d.v[K_requirements].v) = 1
                  /\ sec[1] = Heading(1, TextOr(req, K_id, <<"R", "E", "Q", "-", "?">>)
                                         \o <<":", " ">> \o TextOr(req, K_summary, <<>>))
                  /\ sec[2].runs[2].text = TextOr(req, K_issue_type, <<"S", "t", "o", "r", "y">>)
                  /\ sec[2].runs[4].text = TextOr(req, K_priority, <<"M", "e", "d", "i", "u", "m">>)
                  /\ IF K_story_points \in DOMAIN req.v
                     THEN Len(sec[2].runs) = 6 /\ sec[2].runs[6].text = <<"3">>
                     ELSE Len(sec[2].runs) = 4
                  /\ IF o = 1
                     THEN /\ sec[3].runs[1].text = DependenciesLabel
                          /\ sec[3].runs[2].text = <<"R", "2", ",", " ", "R", "3">>
                     ELSE Labelled(body, <<FrontLen + 1>>, 1, DependenciesLabel) = {}
                  /\ sec[3 + o] = Heading(2, <<"Description">>)
                  /\ sec[4 + o].kind = "paragraph"
                  /\ sec[4 + o].runs[1].text = TextOr(req, K_description, <<>>)
                  /\ sec[5 + o] = Heading(2, <<"Acceptance Criteria">>)
                  /\ IF K_acceptance_criteria \in DOMAIN req.v
                     THEN /\ sec[6 + o].style = "List Bullet"
                          /\ sec[6 + o].runs[1].text = <<"G">>
                          /\ sec[7 + o] = PageBreak
                          /\ Len(sec) = 7 + o
                     ELSE /\ sec[6 + o] = PageBreak
                          /\ Len(sec) = 6 + o

\* C15 witness: a requirement with no field at all, in a set without
\* project_key, submitted without project key, was rendered
C15_Witness ==
    \E r \in RequestIds :
        /\ Succeeded(r)
        /\ form[r].project_key = <<>>
        /\ extracted[r] = Rec2Dict(<<K_requirements>>, <<JList(<<JDict(EmptyDict)>>)>>)
        /\ Len(Resp(r).body) = FrontLen + 6
        /\ Resp(r).filename = <<"P", "R", "O", "J", "E", "C", "T">> \o S_requirements_docx

(***************************************************************************)
(* Two requests in the newer handler at the same time.  A handler can be   *)
(* suspended at "await upload_file.read()" (line 570) and, when the call   *)
(* of the external service does not block the other handlers, at that call *)
(* (lines 82-90); the other request runs in between.                       *)
(***************************************************************************)
\* generate_word, lines 562-570: file mode, a file is there, the handler
\* waits for its bytes
AwaitRead(r) ==
    /\ pc[r] = "received"
    /\ form[r].input_mode = "file"
    /\ form[r].upload_file.present
    /\ form[r].upload_file.filename # <<>>
    /\ pc' = [pc EXCEPT ![r] = "reading"]
    /\ UNCHANGED <<api_key, form, raw_text, sent, answer, extracted, data, caught, responses, trace>>

\* generate_word goes on from line 570 to the call of the external service
ResumeRead(r) ==
    /\ pc[r] = "reading"
    /\ \E st \in {Start(form[r], api_key)} :
        /\ pc' = [pc EXCEPT ![r] = st.next]
        /\ trace' = [trace EXCEPT ![r] = @ \o st.stages]
        /\ raw_text' = [raw_text EXCEPT ![r] = st.raw_text]
        /\ sent' = [sent EXCEPT ![r] = @ \o st.sent]
        /\ caught' = [caught EXCEPT ![r] = @ \o st.caught]
        /\ responses' = [responses EXCEPT ![r] = @ \o st.responses]
    /\ UNCHANGED <<api_key, form, answer, extracted, data>>

ConcurrentSubmissions ==
    { [conversation_text |-> <<" ", "<">>, project_key |-> <<"K">>, input_mode |-> "text",
       upload_file |-> NoUpload],
      [conversation_text |-> <<"<">>, project_key |-> <<>>, input_mode |-> "text",
       upload_file |-> NoUpload],
      [conversation_text |-> <<" ">>, project_key |-> <<"&", "k">>, input_mode |-> "text",
       upload_file |-> NoUpload],
      [conversation_text |-> <<"<">>, project_key |-> <<"K">>, input_mode |-> "file",
       upload_file |-> TxtUpload],
      [conversation_text |-> <<>>, project_key |-> <<>>, input_mode |-> "file",
       upload_file |-> Upload(<<"n", ".", "p", "d", "f">>, <<97>>, NoPackage)] }

ConcurrentOutcomes ==
    {[raised |-> TRUE, exc |-> E_Connection, output_text |-> <<>>]}
    \cup {[raised |-> FALSE, exc |-> E_Connection, output_text |-> t] :
            t \in {<<"{">>,
                   Dumps(Rec2Dict(<<K_requirements>>, <<JList(<<ReqThirteen>>)>>)),
                   Dumps(WithKey(Rec2Dict(<<K_requirements>>, <<JList(<<ReqFull>>)>>), JStr(<<"S">>))),
                   Dumps(Rec2Dict(<<K_requirements>>, <<JList(<<ReqBadDependency>>)>>))}}

NextConcurrent ==
    \E r \in RequestIds :
        \/ FormPage(r)
        \/ \E submission \in ConcurrentSubmissions : Post(r, submission)
        \/ AwaitRead(r)
        \/ ResumeRead(r)
        \/ Begin(r)
        \/ \E outcome \in ConcurrentOutcomes : ServiceReturn(r, outcome)

SpecConcurrent == Init /\ [][NextConcurrent]_vars

\* what a request with submission f gets when it runs alone, the key being key
\* and the service answering ans (no answer when it is not called)
Alone(f, key, ans) ==
    IF Start(f, key).next = "done"
    THEN [responses |-> Start(f, key).responses, caught |-> Start(f, key).caught,
          extracted |-> Unset, data |-> Unset]
    ELSE [responses |-> <<Finish(f, ans[1]).response>>, caught |-> Finish(f, ans[1]).caught,
          extracted |-> Finish(f, ans[1]).extracted, data |-> Finish(f, ans[1]).data]

\* C16: however two requests interleave, each has the resolved text, the
\* request to the service, the requirement set, the overridden set, the
\* caught error and the response that its own submission and its own answer
\* from the service give when it runs alone.
C16_Isolation ==
    \A r \in RequestIds :
        /\ (Posted(r) /\ pc[r] \in {"received", "reading"}) =>
            /\ raw_text[r] = <<>>
            /\ sent[r] = <<>>
            /\ responses[r] = <<>>
        /\ (Posted(r) /\ pc[r] \in {"calling", "done"}) =>
            /\ raw_text[r] = Start(form[r], api_key).raw_text
            /\ sent[r] = Start(form[r], api_key).sent
        /\ (Posted(r) /\ pc[r] = "calling") =>
            /\ responses[r] = <<>>
            /\ caught[r] = <<>>
            /\ extracted[r] = Unset
            /\ data[r] = Unset
        /\ Completed(r) =>
            /\ responses[r] = Alone(form[r], api_key, answer[r]).responses
            /\ caught[r] = Alone(form[r], api_key, answer[r]).caught
            /\ extracted[r] = Alone(form[r], api_key, answer[r]).extracted
            /\ data[r] = Alone(form[r], api_key, answer[r]).data

\* C16 witness: r1 got the document named after its own key K, without a
\* project_key in the extracted set, while r2, submitted without a key and
\* answered a set with key S, got the document named S
C16_Witness ==
    /\ Succeeded("r1")
    /\ Succeeded("r2")
    /\ form["r1"].project_key = <<"K">>
    /\ form["r2"].project_key = <<>>
    /\ raw_text["r1"] # raw_text["r2"]
    /\ answer["r1"] # answer["r2"]
    /\ Resp("r1").filename = <<"K">> \o S_requirements_docx
    /\ Resp("r2").filename = <<"S">> \o S_requirements_docx
    /\ K_project_key \notin DOMAIN extracted["r1"].v

\* an upload with a name and a supported extension that opens: a .txt file, or
\* a .docx file that holds a Word document
Supported(u) ==
    /\ u.present
    /\ u.filename # <<>>
    /\ \/ HasExt(u.filename, S_dot_txt)
       \/ HasExt(u.filename, S_dot_docx) /\ u.package.kind = "word"

\* the text of a supported upload
ContentOf(u) ==
    IF HasExt(u.filename, S_dot_txt) THEN Utf8DecodeIgnore(u.bytes)
    ELSE Join(<<"\n">>, u.package.paragraphs)

ValidationMessages == {M_NoText, M_NoFile, M_Unsupported}

\* C17: in file mode a supported upload never fails validation: its text,
\* untrimmed, also when empty or blank, is the resolved text and, the key being
\* there, is what is sent to the service, whatever the text field holds.
C17_FileContentUnchecked ==
    \A r \in RequestIds :
        (Posted(r) /\ pc[r] \in {"calling", "done"} /\ form[r].input_mode = "file"
                   /\ Supported(form[r].upload_file)) =>
            /\ \A i \in 1..Len(caught[r]) : caught[r][i].msg \notin ValidationMessages
            /\ Ran(r, "extract")
            /\ raw_text[r] = ContentOf(form[r].upload_file)
            /\ CheckApiKey(api_key).ok =>
                /\ Len(sent[r]) = 1
                /\ sent[r][1].user = ContentOf(form[r].upload_file)

\* C17 witness: an empty .txt file was uploaded next to a text field that is
\* not empty, and the empty text went to the service
C17_Witness ==
    \E r \in RequestIds :
        /\ pc[r] = "calling"
        /\ form[r].input_mode = "file"
        /\ form[r].upload_file.filename = S_dot_txt
        /\ form[r].upload_file.bytes = <<>>
        /\ form[r].conversation_text = <<"<", "<">>
        /\ sent[r][1].user = <<>>

====
